---- MODULE Spec2Model ----
(***************************************************************************)
(* Model of the flashcard application's spaced-repetition core:            *)
(*   - the SM-2 scheduler      (src/src/models/sm2.rs)                     *)
(*   - the learning session    (src/src/models/learning_session.rs)        *)
(*   - the decks / flashcards / review_data / app_state tables            *)
(*                             (src/src/database/db.rs)                    *)
(*   - the main screen's handlers and the import (src/src/app.rs)          *)
(*   - the Mutex around the storage handle                                 *)
(*                                                                         *)
(* Representation choices.                                                 *)
(*   easiness_factor (f64) is held in hundredths: 2.5 is 250, 1.3 is 130.  *)
(*     Every increment of the formula is a whole number of hundredths.     *)
(*   SystemTime values are seconds since UNIX_EPOCH.                       *)
(*   Vec indices are 0-based as in the source; a Vec is a TLA+ sequence,   *)
(*     so element idx of a Vec v is v[idx + 1].                            *)
(*   A panic (unwrap on Err, arithmetic overflow in a checked build) sets  *)
(*     panicked and no operation runs afterwards.                          *)
(***************************************************************************)
EXTENDS Integers, Sequences, FiniteSets, TLC

(* ------------------------------ bounds --------------------------------- *)
MaxCards == 2          \* rows of review_data in the modelled deck
MaxGrades == 2         \* grade_current_card calls per behaviour of Spec
MaxRounds == 1         \* next_card is called while round_number <= MaxRounds
MaxWrap == 1           \* next_card is called while current_index < MaxCards + MaxWrap
MaxDriverGrades == 3   \* grade_current_card calls per behaviour of SpecDriver
MaxDays == 1           \* advance_day calls per behaviour
StartDay == 2          \* the current date of Init, in days since the epoch
MaxSmQuality == 6      \* SpecSM2 draws qualities 0..MaxSmQuality (u8; > 5 clamps)
MaxSmEfSteps == 70     \* SpecSM2 draws easiness factors 1.30, 1.32, .. by 0.02
MaxSmInterval == 7     \* largest prior interval_days drawn in SpecSM2
MaxSmReps == 3         \* largest prior repetitions drawn in SpecSM2
MaxSmSteps == 2        \* chained reviews per behaviour of SpecSM2
MaxStoreOps == 3       \* handlers run per behaviour of SpecStore
MaxToggleGrades == 1   \* grade_current_card calls per behaviour of SpecToggle
MaxLiveGrades == 2     \* grades of any quality per behaviour of SpecLive
MaxPerfectRun == 18    \* longest run of grades of 5 a state of SpecChain starts after
MaxChainSteps == 2     \* gradings per behaviour of SpecChain

(* -------------------------- program constants -------------------------- *)
DaySecs == 86400
MaxQuality == 5        \* the learning screen's grade buttons are 0 .. 5
EfFloor == 130
DefaultEf == 250
I32Max == 2147483647   \* i32::MAX, the largest interval_days

Qualities == 0..MaxQuality

(* ------------------------------- state --------------------------------- *)
VARIABLES
    all_cards,            \* LearningSession.all_cards
    current_round_cards,  \* LearningSession.current_round_cards
    current_index,        \* LearningSession.current_index
    show_definition,      \* LearningSession.show_definition
    round_number,         \* LearningSession.round_number
    db_review,            \* table review_data: flashcard_id -> row
    db_current_date,      \* table app_state, key 'current_date'
    panicked,             \* the thread driving the session has panicked
    grades,               \* number of grade_current_card calls made
    days,                 \* number of advance_day calls performed
    run_len,              \* grades of the current card since the last next_card
    run_pre,              \* that card's tuple and stored row before those grades
    run_ok,               \* every storage write of those grades succeeded
    log,                  \* SpecDriver: qualities graded so far, in order
    phase,                \* SpecDriver: which call the driver issues next
    sm_rd,                \* SpecSM2: the ReviewData under review
    sm_prev,              \* SpecSM2: the ReviewData passed to the last call
    sm_q,                 \* SpecSM2: the quality passed to the last call
    sm_now,               \* SpecSM2: the current_date passed to the last call
    sm_steps,             \* SpecSM2: number of calls made
    conn_lock,            \* SpecLock: who holds the Mutex<Connection>
    pc,                   \* SpecLock: where each holder of the handle stands
    grade_frame,          \* SpecLock: locals of the running grade_current_card
    db_decks,             \* table decks: the names
    db_flashcards,        \* table flashcards: id -> (deck_name, term, definition)
    all_decks,            \* MyApp.all_decks.decks
    selected_deck_index,  \* MyApp.selected_deck_index, -1 for None
    current_screen,       \* MyApp.current_screen
    last_call,            \* SpecStore: the handler or storage function run last
    ops,                  \* SpecStore: number of handlers run
    toggle_pre,           \* SpecToggle: show_definition as the toggle just made found it
    round_grades,         \* SpecTrace: card index -> its latest grade in this round
    last_grade            \* SpecApp: card id -> quality and date of its latest stored grade

session_vars == <<all_cards, current_round_cards, current_index,
                  show_definition, round_number>>
db_vars == <<db_review, db_current_date>>
run_vars == <<run_len, run_pre, run_ok>>
driver_vars == <<log, phase>>
trace_vars == <<toggle_pre, round_grades, last_grade>>
sm_vars == <<sm_rd, sm_prev, sm_q, sm_now, sm_steps>>
lock_vars == <<conn_lock, pc, grade_frame>>
table_vars == <<db_decks, db_flashcards>>
gui_vars == <<all_decks, selected_deck_index, current_screen>>
app_vars == <<table_vars, gui_vars, last_call, ops>>
vars == <<session_vars, db_vars, panicked, grades, days, run_vars,
          driver_vars, trace_vars, sm_vars, lock_vars, app_vars>>

(* ------------------------------ scheduler ------------------------------ *)

\* ClampQuality without the clamp
ClampQuality_Identity(quality) == quality

\* `let quality = quality.min(5)`
ClampQuality(quality) == IF quality > 5 THEN 5 ELSE quality

\* EfDelta without the quadratic term
EfDelta_Linear(q) == 10 - (5 - q) * 8

\* 100 * (0.1 - (5 - q) * (0.08 + (5 - q) * 0.02)) = 10 - (5 - q) * (8 + (5 - q) * 2)
EfDelta(q) == 10 - (5 - q) * (8 + (5 - q) * 2)

\* NewEf without the floor
NewEf_NoFloor(ef, q) == ef + EfDelta(q)

\* the new E-Factor: the formula, then the floor at 1.3
NewEf(ef, q) ==
    LET new_ef == ef + EfDelta(q)
    IN  IF new_ef < EfFloor THEN EfFloor ELSE new_ef

\* (interval_days as f64 * new_ef).round() as i32; f64::round rounds half
\* away from zero, interval_days and new_ef are non-negative here, and the
\* cast of a float above i32::MAX gives i32::MAX.  With interval_days =
\* 100 * whole + rest the rounded product is whole * new_ef + part.
RoundMul(interval_days, new_ef) ==
    LET whole == interval_days \div 100
        part == ((interval_days % 100) * new_ef + 50) \div 100
    IN  IF whole > (I32Max - part) \div new_ef THEN I32Max
        ELSE whole * new_ef + part

\* NewInterval multiplying by the easiness factor of the previous review
NewInterval_OldEf(review_data, new_reps, new_ef) ==
    CASE new_reps = 1 -> 1
      [] new_reps = 2 -> 6
      [] OTHER -> RoundMul(review_data.interval_days,
                           review_data.easiness_factor)

\* NewInterval matching on the previous repetitions, not the new ones
NewInterval_PrevReps(review_data, new_reps, new_ef) ==
    CASE review_data.repetitions = 1 -> 1
      [] review_data.repetitions = 2 -> 6
      [] OTHER -> RoundMul(review_data.interval_days, new_ef)

\* NewInterval without the fixed second interval
NewInterval_NoSecondStep(review_data, new_reps, new_ef) ==
    CASE new_reps = 1 -> 1
      [] OTHER -> RoundMul(review_data.interval_days, new_ef)

NewInterval(review_data, new_reps, new_ef) ==
    CASE new_reps = 1 -> 1
      [] new_reps = 2 -> 6
      [] OTHER -> RoundMul(review_data.interval_days, new_ef)

\* calculate_next_review carrying the easiness factor over on a failed review
calculate_next_review_KeepEf(review_data, quality_in, current_date) ==
    LET quality == ClampQuality(quality_in)
        new_ef == IF quality < 3 THEN review_data.easiness_factor
                  ELSE NewEf(review_data.easiness_factor, quality)
        new_reps == review_data.repetitions + 1
        new_interval == IF quality < 3 THEN 0
                        ELSE NewInterval(review_data, new_reps, new_ef)
        new_repetitions == IF quality < 3 THEN 0 ELSE new_reps
    IN  [ flashcard_id |-> review_data.flashcard_id,
          easiness_factor |-> new_ef,
          interval_days |-> new_interval,
          repetitions |-> new_repetitions,
          next_review_date |-> current_date + new_interval * DaySecs ]

\* calculate_next_review counting the interval from the date the card was
\* due, not from current_date
calculate_next_review_FromDueDate(review_data, quality_in, current_date) ==
    LET quality == ClampQuality(quality_in)
        new_ef == NewEf(review_data.easiness_factor, quality)
        new_reps == review_data.repetitions + 1
        new_interval == IF quality < 3 THEN 0
                        ELSE NewInterval(review_data, new_reps, new_ef)
        new_repetitions == IF quality < 3 THEN 0 ELSE new_reps
    IN  [ flashcard_id |-> review_data.flashcard_id,
          easiness_factor |-> new_ef,
          interval_days |-> new_interval,
          repetitions |-> new_repetitions,
          next_review_date |->
              review_data.next_review_date + new_interval * DaySecs ]

calculate_next_review(review_data, quality_in, current_date) ==
    LET quality == ClampQuality(quality_in)
        new_ef == NewEf(review_data.easiness_factor, quality)
        new_reps == review_data.repetitions + 1
        new_interval == IF quality < 3 THEN 0
                        ELSE NewInterval(review_data, new_reps, new_ef)
        new_repetitions == IF quality < 3 THEN 0 ELSE new_reps
    IN  [ flashcard_id |-> review_data.flashcard_id,
          easiness_factor |-> new_ef,
          interval_days |-> new_interval,
          repetitions |-> new_repetitions,
          next_review_date |-> current_date + new_interval * DaySecs ]


(* ------------------------------- storage ------------------------------- *)

\* get_current_date: the value of app_state['current_date']
get_current_date == db_current_date

\* update_review_data without its WHERE clause: every row is overwritten
update_review_data_AllRows(table, review_data, write_ok) ==
    IF write_ok
    THEN [ id \in DOMAIN table |-> review_data ]
    ELSE table

\* update_review_data: UPDATE review_data SET ... WHERE flashcard_id = ?5.
\* A row that does not exist is not an error (no row is updated); an Err of
\* conn.execute leaves the table as it was.
update_review_data(table, review_data, write_ok) ==
    IF write_ok /\ review_data.flashcard_id \in DOMAIN table
    THEN [table EXCEPT ![review_data.flashcard_id] = review_data]
    ELSE table

\* the row INSERTed by add_flashcard on the given date
DefaultReview(id, date) ==
    [ flashcard_id |-> id, easiness_factor |-> DefaultEf, interval_days |-> 0,
      repetitions |-> 0, next_review_date |-> date ]

\* IsDue leaving out the day the card falls due
IsDue_Strict(row, date) == row.next_review_date < date

\* WHERE r.next_review_date <= ?2
IsDue(row, date) == row.next_review_date <= date

\* the sequences with exactly the elements of set S, each once
RECURSIVE Orderings(_)
Orderings(S) ==
    IF S = {} THEN { <<>> }
    ELSE UNION { { <<x>> \o t : t \in Orderings(S \ {x}) } : x \in S }

\* WHERE f.deck_name = ?1, without the condition
InDeck_Any(card, deck_name) == TRUE

\* WHERE f.deck_name = ?1
InDeck(card, deck_name) == card.deck_name = deck_name

\* get_flashcards_due_for_review: flashcards JOIN review_data ON the id,
\* of the deck and due, ORDER BY next_review_date ASC; the order of rows with
\* equal dates is not fixed by the query, so every order of them is a
\* possible answer.  A row is (id, ReviewData); a flashcard without a
\* review_data row is in no answer.
get_flashcards_due_for_review(deck_name, flashcards, table, date) ==
    LET due == { id \in DOMAIN flashcards \cap DOMAIN table :
                   /\ InDeck(flashcards[id], deck_name)
                   /\ IsDue(table[id], date) }
    IN  { [ k \in 1..Len(o) |-> [ id |-> o[k], rd |-> table[o[k]] ] ] :
            o \in { s \in Orderings(due) :
                      \A a, b \in 1..Len(s) :
                          a < b => table[s[a]].next_review_date
                                       <= table[s[b]].next_review_date } }

\* some flashcards row has this deck_name and term
HasTerm(flashcards, deck_name, term) ==
    \E id \in DOMAIN flashcards :
        flashcards[id].deck_name = deck_name /\ flashcards[id].term = term

\* INSERT OR IGNORE INTO flashcards (deck_name, term, definition): ids are
\* AUTOINCREMENT and no row is ever deleted, so they are 1..Len; a row that
\* would break UNIQUE(deck_name, term) is dropped without an error
insert_or_ignore_flashcard(flashcards, deck_name, term, definition) ==
    IF HasTerm(flashcards, deck_name, term) THEN flashcards
    ELSE Append(flashcards, [ deck_name |-> deck_name, term |-> term,
                              definition |-> definition ])

\* SELECT id FROM flashcards WHERE deck_name = ?1 AND term = ?2
flashcard_id(flashcards, deck_name, term) ==
    CHOOSE id \in DOMAIN flashcards :
        flashcards[id].deck_name = deck_name /\ flashcards[id].term = term

\* INSERT OR IGNORE INTO review_data ... VALUES (?1, 2.5, 0, 0, ?2)
insert_or_ignore_review(table, id, date) ==
    IF id \in DOMAIN table THEN table
    ELSE [ i \in DOMAIN table \cup {id} |->
             IF i = id THEN DefaultReview(id, date) ELSE table[i] ]

\* how a call of add_flashcard can end: every statement succeeds, the first
\* INSERT fails, or a later statement (the SELECT, the read of the date, the
\* second INSERT) fails after the flashcards row was written; the
\* statements are not in a transaction
AddOutcomes == {"ok", "err_insert", "err_later"}

\* add_flashcard: the tables it leaves and whether it returned Ok
add_flashcard(flashcards, table, date, deck_name, term, definition, outcome) ==
    LET inserted == insert_or_ignore_flashcard(flashcards, deck_name, term,
                                               definition)
    IN  CASE outcome = "err_insert" ->
               [ flashcards |-> flashcards, review |-> table, ok |-> FALSE ]
          [] outcome = "err_later" ->
               [ flashcards |-> inserted, review |-> table, ok |-> FALSE ]
          [] OTHER ->
               [ flashcards |-> inserted,
                 review |-> insert_or_ignore_review(
                                table,
                                flashcard_id(inserted, deck_name, term), date),
                 ok |-> TRUE ]

\* get_flashcards_for_deck without the ids, in id order (the query fixes
\* no order)
RECURSIVE DeckCards(_, _)
DeckCards(flashcards, deck_name) ==
    IF flashcards = <<>> THEN <<>>
    ELSE LET n == Len(flashcards)
             init == DeckCards(SubSeq(flashcards, 1, n - 1), deck_name)
         IN  IF flashcards[n].deck_name = deck_name
             THEN Append(init, [ term |-> flashcards[n].term,
                                 definition |-> flashcards[n].definition ])
             ELSE init

\* load_all_decks: a Deck for every row of decks, in one of the orders
\* `SELECT name FROM decks` can give
load_all_decks(decks, flashcards) ==
    { [ k \in 1..Len(o) |->
          [ name |-> o[k], flashcards |-> DeckCards(flashcards, o[k]) ] ] :
        o \in Orderings(decks) }

(* ------------------------------- session ------------------------------- *)

\* NewAllCards with every card already learned
NewAllCards_Learned(cards) ==
    [ k \in 1..Len(cards) |->
        [ id |-> cards[k].id, is_learned |-> TRUE, last_learned_at |-> "None",
          rd |-> cards[k].rd ] ]

\* LearningCard::new: is_learned false, last_learned_at None
\* new_from_due_cards: wraps each due row, all indices in input order
NewAllCards(cards) ==
    [ k \in 1..Len(cards) |->
        [ id |-> cards[k].id, is_learned |-> FALSE, last_learned_at |-> "None",
          rd |-> cards[k].rd ] ]

\* NewIndices over 0..=len, one index too many
NewIndices_Inclusive(cards) == [ k \in 1..(Len(cards) + 1) |-> k - 1 ]

\* NewIndices counting from 1, as positions instead of indices
NewIndices_FromOne(cards) == [ k \in 1..Len(cards) |-> k ]

NewIndices(cards) == [ k \in 1..Len(cards) |-> k - 1 ]

\* Vec::get: Some(v[idx]) when idx is in range
InRange(v, idx) == idx >= 0 /\ idx < Len(v)

\* current_card: the card under the cursor, if there is one
HasCurrentCard ==
    /\ InRange(current_round_cards, current_index)
    /\ InRange(all_cards, current_round_cards[current_index + 1])

CurrentIdx == current_round_cards[current_index + 1]

current_card == all_cards[CurrentIdx + 1]

\* .map(|(_, card, _)| card.is_learned).unwrap_or(false)
IsLearnedAt(cards, idx) == InRange(cards, idx) /\ cards[idx + 1].is_learned

\* .map(|(_, card, _)| !card.is_learned).unwrap_or(false)
IsNotLearnedAt(cards, idx) == InRange(cards, idx) /\ ~cards[idx + 1].is_learned

\* learned_count taken over all_cards instead of the round
learned_count_AllCards ==
    Cardinality({ k \in 1..Len(all_cards) : all_cards[k].is_learned })

learned_count ==
    Cardinality({ k \in 1..Len(current_round_cards) :
                    IsLearnedAt(all_cards, current_round_cards[k]) })

total_count == Len(current_round_cards)

remaining_count == total_count - learned_count

is_completed == current_round_cards = <<>> \/ learned_count = total_count

\* failed_indices keeping every card of the round
failed_indices_NoFilter(round, cards) == round

\* failed_indices in the opposite order
failed_indices_Reversed(round, cards) ==
    LET failed == SelectSeq(round, LAMBDA idx : IsNotLearnedAt(cards, idx))
    IN  [ k \in 1..Len(failed) |-> failed[Len(failed) + 1 - k] ]

\* start_next_round: the indices of the round whose card is not learned,
\* in the order of the round
failed_indices(round, cards) ==
    SelectSeq(round, LAMBDA idx : IsNotLearnedAt(cards, idx))

\* start_next_round: is_learned := false for every card of the new round
ResetLearned(cards, round) ==
    [ k \in 1..Len(cards) |->
        IF \E j \in 1..Len(round) : round[j] = k - 1
        THEN [cards[k] EXCEPT !.is_learned = FALSE]
        ELSE cards[k] ]

\* MarkGrade with the threshold off by one
MarkGrade_Above3(card, quality) ==
    IF quality > 3
    THEN [card EXCEPT !.is_learned = TRUE, !.last_learned_at = "Some"]
    ELSE [card EXCEPT !.is_learned = FALSE]

\* grade_current_card: mark_as_learned() when quality >= 3, else is_learned = false
MarkGrade(card, quality) ==
    IF quality >= 3
    THEN [card EXCEPT !.is_learned = TRUE, !.last_learned_at = "Some"]
    ELSE [card EXCEPT !.is_learned = FALSE]


(* ------------------------------ operations ----------------------------- *)

NoCard == [ id |-> 0 ]

\* toggle_definition that shows the definition whatever it was
toggle_definition_SetTrue ==
    /\ ~panicked
    /\ show_definition' = TRUE
    /\ UNCHANGED <<all_cards, current_round_cards, current_index, round_number,
                   db_vars, panicked, run_vars>>

\* toggle_definition
toggle_definition ==
    /\ ~panicked
    /\ show_definition' = ~show_definition
    /\ UNCHANGED <<all_cards, current_round_cards, current_index, round_number,
                   db_vars, panicked, run_vars>>

\* start_next_round that does not count the round
start_next_round_KeepRound ==
    LET failed == failed_indices(current_round_cards, all_cards)
    IN  IF failed # <<>>
        THEN /\ current_round_cards' = failed
             /\ current_index' = 0
             /\ show_definition' = FALSE
             /\ all_cards' = ResetLearned(all_cards, failed)
             /\ UNCHANGED round_number
        ELSE UNCHANGED session_vars

\* start_next_round that leaves the cursor where it was
start_next_round_KeepIndex ==
    LET failed == failed_indices(current_round_cards, all_cards)
    IN  IF failed # <<>>
        THEN /\ current_round_cards' = failed
             /\ show_definition' = FALSE
             /\ round_number' = round_number + 1
             /\ all_cards' = ResetLearned(all_cards, failed)
             /\ UNCHANGED current_index
        ELSE UNCHANGED session_vars

\* start_next_round: a new round of the cards that are not learned, if any
start_next_round ==
    LET failed == failed_indices(current_round_cards, all_cards)
    IN  IF failed # <<>>
        THEN /\ current_round_cards' = failed
             /\ current_index' = 0
             /\ show_definition' = FALSE
             /\ round_number' = round_number + 1
             /\ all_cards' = ResetLearned(all_cards, failed)
        ELSE UNCHANGED session_vars

\* next_card that leaves show_definition as it is when it moves the cursor
next_card_KeepDefinition(overflow_checks) ==
    /\ ~panicked
    /\ run_len' = 0
    /\ run_pre' = NoCard
    /\ run_ok' = TRUE
    /\ UNCHANGED db_vars
    /\ IF Len(current_round_cards) = 0
       THEN IF overflow_checks
            THEN /\ panicked' = TRUE
                 /\ UNCHANGED session_vars
            ELSE /\ current_index' = current_index + 1
                 /\ UNCHANGED <<all_cards, current_round_cards, round_number,
                                show_definition, panicked>>
       ELSE /\ UNCHANGED panicked
            /\ IF current_index < Len(current_round_cards) - 1
               THEN /\ current_index' = current_index + 1
                    /\ UNCHANGED <<all_cards, current_round_cards, round_number,
                                   show_definition>>
               ELSE start_next_round

\* next_card.  `current_round_cards.len() - 1` is a usize subtraction: on an
\* empty round it panics when the build checks overflow and wraps to
\* usize::MAX when it does not, and then the cursor is below it.
next_card(overflow_checks) ==
    /\ ~panicked
    /\ run_len' = 0
    /\ run_pre' = NoCard
    /\ run_ok' = TRUE
    /\ UNCHANGED db_vars
    /\ IF Len(current_round_cards) = 0
       THEN IF overflow_checks
            THEN /\ panicked' = TRUE
                 /\ UNCHANGED session_vars
            ELSE /\ current_index' = current_index + 1
                 /\ show_definition' = FALSE
                 /\ UNCHANGED <<all_cards, current_round_cards, round_number,
                                panicked>>
       ELSE /\ UNCHANGED panicked
            /\ IF current_index < Len(current_round_cards) - 1
               THEN /\ current_index' = current_index + 1
                    /\ show_definition' = FALSE
                    /\ UNCHANGED <<all_cards, current_round_cards, round_number>>
               ELSE start_next_round

\* what a call of grade_current_card that returns hands to its caller: the
\* function is declared without a return type, so it is `()` whatever
\* update_review_data returned
grade_current_card_returns(write_ok) == "()"

\* grade_current_card.  The learned flag is set first; get_current_date's
\* unwrap panics when the read fails; the Result of update_review_data is
\* dropped (`let _ =`) and the tuple's ReviewData is replaced either way.
grade_current_card(quality, read_ok, write_ok) ==
    /\ ~panicked
    /\ UNCHANGED <<current_round_cards, current_index, show_definition,
                   round_number, db_current_date>>
    /\ IF ~HasCurrentCard
       THEN UNCHANGED <<all_cards, db_review, panicked, run_vars>>
       ELSE LET marked == MarkGrade(current_card, quality)
                new_review == calculate_next_review(marked.rd, quality,
                                                    get_current_date)
            IN  IF ~read_ok
                THEN /\ all_cards' = [all_cards EXCEPT ![CurrentIdx + 1] = marked]
                     /\ panicked' = TRUE
                     /\ UNCHANGED <<db_review, run_vars>>
                ELSE /\ all_cards' = [all_cards EXCEPT ![CurrentIdx + 1] =
                                         [marked EXCEPT !.rd = new_review]]
                     /\ db_review' = update_review_data(db_review, new_review,
                                                        write_ok)
                     /\ UNCHANGED panicked
                     /\ run_len' = run_len + 1
                     /\ run_pre' = IF run_len = 0
                                   THEN [ id |-> current_card.id,
                                          card |-> current_card,
                                          quality |-> quality ]
                                   ELSE [run_pre EXCEPT !.quality = quality]
                     /\ run_ok' = IF run_len = 0 THEN write_ok
                                  ELSE run_ok /\ write_ok

\* advance_day: the current date moves on by 24 hours
advance_day ==
    /\ ~panicked
    /\ days < MaxDays
    /\ db_current_date' = get_current_date + DaySecs
    /\ days' = days + 1
    /\ UNCHANGED <<session_vars, db_review, panicked, run_vars>>

(* --------------------------- initial states ---------------------------- *)

StartDate == StartDay * DaySecs

\* a card added today
FreshRow(id) == DefaultReview(id, StartDate)

\* a card added two days ago and graded 3 on that day: due since yesterday
OverdueRow(id) ==
    calculate_next_review(DefaultReview(id, StartDate - 2 * DaySecs), 3,
                          StartDate - 2 * DaySecs)

\* a deck of n cards, the first k of them overdue and the others added today
InitDeck(n, k) ==
    [ id \in 1..n |-> IF id <= k THEN OverdueRow(id) ELSE FreshRow(id) ]

\* the deck the session is about, and its n cards in table flashcards
SessionDeck == "A"

InitFlashcards(n) ==
    [ id \in 1..n |-> [ deck_name |-> SessionDeck,
                       term |-> "t" \o ToString(id),
                       definition |-> "d" \o ToString(id) ] ]

\* new_with_deckset: `if has_decks { Some(0) } else { None }`
InitSelected(decks) == IF decks # <<>> THEN 0 ELSE -1

NoCall == [ op |-> "none", dup |-> FALSE, ok |-> TRUE, deck |-> "" ]

\* no deck and no card stored, the main screen with nothing selected
AppIdle ==
    /\ db_decks = {}
    /\ db_flashcards = <<>>
    /\ all_decks = <<>>
    /\ selected_deck_index = -1
    /\ current_screen = "Main"
    /\ last_call = NoCall
    /\ ops = 0

NoReview == DefaultReview(0, 0)

\* the scheduler's variables, at rest outside SpecSM2
SmIdle ==
    /\ sm_rd = NoReview
    /\ sm_prev = NoReview
    /\ sm_q = 0
    /\ sm_now = 0
    /\ sm_steps = 0

\* start_learning_session's query followed by new_from_due_cards, on a deck
\* of up to MaxCards cards, at most the oldest one overdue.  Rows with equal
\* dates are taken in id order, one of the orders the query allows; the
\* others differ by a renaming of ids.
InitSession ==
    /\ \E n \in 0..MaxCards : \E k \in { j \in {0, 1} : j <= n } :
         /\ db_review = InitDeck(n, k)
         /\ db_flashcards = InitFlashcards(n)
    /\ db_decks = {SessionDeck}
    /\ all_decks \in load_all_decks(db_decks, db_flashcards)
    /\ selected_deck_index = InitSelected(all_decks)
    /\ current_screen = "LearningSession"
    /\ last_call = NoCall
    /\ ops = 0
    /\ db_current_date = StartDate
    /\ \E cards \in get_flashcards_due_for_review(SessionDeck, db_flashcards,
                                                  db_review, db_current_date) :
         /\ \A a, b \in 1..Len(cards) : a < b => cards[a].id < cards[b].id
         /\ all_cards = NewAllCards(cards)
         /\ current_round_cards = NewIndices(cards)
    /\ current_index = 0
    /\ show_definition = FALSE
    /\ round_number = 1
    /\ panicked = FALSE
    /\ days = 0
    /\ run_len = 0
    /\ run_pre = NoCard
    /\ run_ok = TRUE

\* the Mutex<Connection> free and no holder of the handle inside a call
Holders == {"session", "ui"}

NoFrame == [ quality |-> 0, current_date |-> 0, new_review |-> NoReview ]

LockIdle ==
    /\ conn_lock = "free"
    /\ pc = [ h \in Holders |-> "idle" ]
    /\ grade_frame = NoFrame

\* no toggle made and no grade given yet
TraceIdle ==
    /\ toggle_pre = <<>>
    /\ round_grades = <<>>
    /\ last_grade = <<>>

Init ==
    /\ InitSession
    /\ grades = 0
    /\ log = <<>>
    /\ phase = "grade"
    /\ SmIdle
    /\ LockIdle
    /\ TraceIdle

(* ---------------- the session driven through its interface ------------- *)

Toggle ==
    /\ toggle_definition
    /\ UNCHANGED <<grades, days, driver_vars, trace_vars, sm_vars, lock_vars, app_vars>>

Grade ==
    /\ grades < MaxGrades
    /\ \E quality \in Qualities, read_ok \in BOOLEAN, write_ok \in BOOLEAN :
         grade_current_card(quality, read_ok, write_ok)
    /\ grades' = grades + 1
    /\ UNCHANGED <<days, driver_vars, trace_vars, sm_vars, lock_vars, app_vars>>

NextCard ==
    /\ round_number <= MaxRounds
    /\ current_index < MaxCards + MaxWrap
    /\ \E overflow_checks \in BOOLEAN : next_card(overflow_checks)
    /\ UNCHANGED <<grades, days, driver_vars, trace_vars, sm_vars, lock_vars, app_vars>>

Next == Toggle \/ Grade \/ NextCard

Spec == Init /\ [][Next]_vars

(* ------- the session driven as the learning screen drives it ---------- *)
\* render_learning_screen: `session.grade_current_card(quality);
\* session.next_card();` for each grade given.  A call that panics does not
\* return, so it is not logged and nothing follows it.

DriverGrade ==
    /\ phase = "grade"
    /\ Len(log) < MaxDriverGrades
    /\ \E quality \in Qualities, read_ok \in BOOLEAN, write_ok \in BOOLEAN :
         /\ grade_current_card(quality, read_ok, write_ok)
         /\ IF panicked' THEN UNCHANGED driver_vars
            ELSE /\ log' = Append(log, quality)
                 /\ phase' = "next"
    /\ UNCHANGED <<grades, days, sm_vars, trace_vars, lock_vars, app_vars>>

DriverNext ==
    /\ phase = "next"
    /\ \E overflow_checks \in BOOLEAN : next_card(overflow_checks)
    /\ phase' = "grade"
    /\ UNCHANGED <<log, grades, days, sm_vars, trace_vars, lock_vars, app_vars>>

NextDriver == DriverGrade \/ DriverNext

SpecDriver == Init /\ [][NextDriver]_vars


(* ------------------------ the scheduler on its own --------------------- *)
\* calculate_next_review applied to ReviewData drawn from bounded sets, and
\* again to its own result.

\* easiness factors 1.3 + 0.02 * j: every factor reachable from 2.5 is one of
\* these (each increment is an even number of hundredths, and so is the floor)
SmEfs == { EfFloor + 2 * j : j \in 0..MaxSmEfSteps }

SmInputs ==
    [ flashcard_id : {1},
      easiness_factor : SmEfs,
      interval_days : 0..MaxSmInterval,
      repetitions : 0..MaxSmReps,
      next_review_date : {StartDate} ]

SmDates == { StartDate, StartDate + DaySecs }

InitSM2 ==
    /\ sm_rd \in SmInputs
    /\ sm_prev = NoReview
    /\ sm_q = 0
    /\ sm_now = 0
    /\ sm_steps = 0
    /\ all_cards = <<>>
    /\ current_round_cards = <<>>
    /\ current_index = 0
    /\ show_definition = FALSE
    /\ round_number = 1
    /\ db_review = <<>>
    /\ db_current_date = StartDate
    /\ panicked = FALSE
    /\ grades = 0
    /\ days = 0
    /\ run_len = 0
    /\ run_pre = NoCard
    /\ run_ok = TRUE
    /\ log = <<>>
    /\ phase = "grade"
    /\ LockIdle
    /\ TraceIdle
    /\ AppIdle

Review ==
    /\ sm_steps < MaxSmSteps
    /\ \E quality \in 0..MaxSmQuality, current_date \in SmDates :
         /\ sm_rd' = calculate_next_review(sm_rd, quality, current_date)
         /\ sm_q' = quality
         /\ sm_now' = current_date
    /\ sm_prev' = sm_rd
    /\ sm_steps' = sm_steps + 1
    /\ UNCHANGED <<session_vars, db_vars, panicked, grades, days, run_vars,
                   driver_vars, trace_vars, lock_vars, app_vars>>

NextSM2 == Review

SpecSM2 == InitSM2 /\ [][NextSM2]_vars


(* ------------- the holders of the shared storage handle ---------------- *)
\* Arc<Mutex<Connection>>: the session's grade_current_card and the main
\* screen's Next Day button each lock the handle around their storage calls.
\* Each storage call is a step of its own, so that another holder could act
\* between two of them if the lock let it.

\* a Mutex that never makes a caller wait
MutexAvailable_Always == TRUE

\* Mutex::lock returns once nobody holds the guard
MutexAvailable == conn_lock = "free"

\* grade_current_card up to `self.conn.lock()`: the learned flag is set
GradeMark ==
    /\ ~panicked
    /\ pc["session"] = "idle"
    /\ grades < MaxGrades
    /\ HasCurrentCard
    /\ \E quality \in Qualities :
         /\ all_cards' = [all_cards EXCEPT
                            ![CurrentIdx + 1] = MarkGrade(current_card, quality)]
         /\ grade_frame' = [NoFrame EXCEPT !.quality = quality]
    /\ pc' = [pc EXCEPT !["session"] = "lock"]
    /\ UNCHANGED <<current_round_cards, current_index, show_definition,
                   round_number, db_vars, panicked, grades, days, run_vars,
                   driver_vars, trace_vars, sm_vars, app_vars, conn_lock>>

\* `let conn = self.conn.lock().unwrap();`
GradeAcquire ==
    /\ ~panicked
    /\ pc["session"] = "lock"
    /\ MutexAvailable
    /\ conn_lock' = "session"
    /\ pc' = [pc EXCEPT !["session"] = "fetch"]
    /\ UNCHANGED <<session_vars, db_vars, panicked, grades, days, run_vars,
                   driver_vars, trace_vars, sm_vars, app_vars, grade_frame>>

\* `get_current_date(&conn).unwrap()`: a failed read panics, guard held
GradeFetch ==
    /\ ~panicked
    /\ pc["session"] = "fetch"
    /\ \E read_ok \in BOOLEAN :
         IF read_ok
         THEN /\ grade_frame' =
                    [grade_frame EXCEPT !.current_date = get_current_date]
              /\ pc' = [pc EXCEPT !["session"] = "compute"]
              /\ UNCHANGED panicked
         ELSE /\ panicked' = TRUE
              /\ UNCHANGED <<grade_frame, pc>>
    /\ UNCHANGED <<session_vars, db_vars, grades, days, run_vars,
                   driver_vars, trace_vars, sm_vars, app_vars, conn_lock>>

\* `let new_review = calculate_next_review(review_data, quality, current_date)`
GradeCompute ==
    /\ ~panicked
    /\ pc["session"] = "compute"
    /\ grade_frame' =
           [grade_frame EXCEPT !.new_review =
               calculate_next_review(current_card.rd, grade_frame.quality,
                                     grade_frame.current_date)]
    /\ pc' = [pc EXCEPT !["session"] = "persist"]
    /\ UNCHANGED <<session_vars, db_vars, panicked, grades, days, run_vars,
                   driver_vars, trace_vars, sm_vars, app_vars, conn_lock>>

\* `let _ = update_review_data(&new_review, &conn);`
GradePersist ==
    /\ ~panicked
    /\ pc["session"] = "persist"
    /\ \E write_ok \in BOOLEAN :
         db_review' = update_review_data(db_review, grade_frame.new_review,
                                         write_ok)
    /\ pc' = [pc EXCEPT !["session"] = "commit"]
    /\ UNCHANGED <<session_vars, db_current_date, panicked, grades, days,
                   run_vars, driver_vars, trace_vars, sm_vars, app_vars, conn_lock, grade_frame>>

\* `*review_data = new_review;` and the end of the guard's scope
GradeCommit ==
    /\ ~panicked
    /\ pc["session"] = "commit"
    /\ all_cards' = [all_cards EXCEPT
                        ![CurrentIdx + 1].rd = grade_frame.new_review]
    /\ conn_lock' = "free"
    /\ pc' = [pc EXCEPT !["session"] = "idle"]
    /\ grade_frame' = NoFrame
    /\ grades' = grades + 1
    /\ UNCHANGED <<current_round_cards, current_index, show_definition,
                   round_number, db_vars, panicked, days, run_vars,
                   driver_vars, trace_vars, sm_vars, app_vars>>

\* Next Day: `let conn = conn.lock().unwrap();`
UiAcquire ==
    /\ ~panicked
    /\ pc["ui"] = "idle"
    /\ days < MaxDays
    /\ MutexAvailable
    /\ conn_lock' = "ui"
    /\ pc' = [pc EXCEPT !["ui"] = "advance"]
    /\ UNCHANGED <<session_vars, db_vars, panicked, grades, days, run_vars,
                   driver_vars, trace_vars, sm_vars, app_vars, grade_frame>>

\* `let _ = db::advance_day(&conn);`
UiAdvance ==
    /\ ~panicked
    /\ pc["ui"] = "advance"
    /\ \E write_ok \in BOOLEAN :
         db_current_date' = IF write_ok THEN get_current_date + DaySecs
                            ELSE db_current_date
    /\ days' = days + 1
    /\ pc' = [pc EXCEPT !["ui"] = "release"]
    /\ UNCHANGED <<session_vars, db_review, panicked, grades, run_vars,
                   driver_vars, trace_vars, sm_vars, app_vars, conn_lock, grade_frame>>

\* the date shown is read again and the guard goes out of scope
UiRelease ==
    /\ ~panicked
    /\ pc["ui"] = "release"
    /\ conn_lock' = "free"
    /\ pc' = [pc EXCEPT !["ui"] = "idle"]
    /\ UNCHANGED <<session_vars, db_vars, panicked, grades, days, run_vars,
                   driver_vars, trace_vars, sm_vars, app_vars, grade_frame>>

NextLock ==
    \/ GradeMark \/ GradeAcquire \/ GradeFetch \/ GradeCompute
    \/ GradePersist \/ GradeCommit
    \/ UiAcquire \/ UiAdvance \/ UiRelease

SpecLock == Init /\ [][NextLock]_vars


(* ------------------ the main screen and the tables --------------------- *)
\* The handlers of render_main_screen, handle_import and
\* start_learning_session, and add_flashcard called on its own, on the tables
\* an earlier run has left.

DeckNames == {"A", "B"}
Terms == {"t1", "t2"}
Definitions == {"d1", "d2"}

\* the text a field can hold when its button is clicked
DeckInputs == DeckNames \cup {""}
TermInputs == Terms \cup {""}
DefinitionInputs == Definitions \cup {""}

\* the decks import_json can return: one named as the stored deck, one with
\* a term twice
ImportFiles ==
    { [ name |-> "A",
        flashcards |-> << [ term |-> "t1", definition |-> "d2" ] >> ],
      [ name |-> "B",
        flashcards |-> << [ term |-> "t1", definition |-> "d1" ],
                          [ term |-> "t1", definition |-> "d2" ] >> ] }

\* a card graded 4 today for the first time: due tomorrow
NotDueRow(id) == calculate_next_review(DefaultReview(id, StartDate), 4, StartDate)

\* no LearningSession: MyApp.learning_session is None
NoSession ==
    /\ all_cards = <<>>
    /\ current_round_cards = <<>>
    /\ current_index = 0
    /\ show_definition = FALSE
    /\ round_number = 1

\* MyApp::new_with_deckset on the tables of an earlier run: deck A with card
\* 1 not due before tomorrow and card 2 overdue
InitStore ==
    /\ db_decks = {"A"}
    /\ db_flashcards =
           << [ deck_name |-> "A", term |-> "t1", definition |-> "d1" ],
              [ deck_name |-> "A", term |-> "t2", definition |-> "d1" ] >>
    /\ db_review = << NotDueRow(1), OverdueRow(2) >>
    /\ db_current_date = StartDate
    /\ all_decks \in load_all_decks(db_decks, db_flashcards)
    /\ selected_deck_index = InitSelected(all_decks)
    /\ current_screen = "Main"
    /\ last_call = NoCall
    /\ ops = 0
    /\ NoSession
    /\ panicked = FALSE
    /\ grades = 0
    /\ days = 0
    /\ run_len = 0
    /\ run_pre = NoCard
    /\ run_ok = TRUE
    /\ log = <<>>
    /\ phase = "grade"
    /\ SmIdle
    /\ LockIdle
    /\ TraceIdle

\* some deck of all_decks has this name
InMemory(name) == \E k \in 1..Len(all_decks) : all_decks[k].name = name

\* a handler of the main screen runs
MainStep ==
    /\ ~panicked
    /\ current_screen = "Main"
    /\ ops < MaxStoreOps
    /\ ops' = ops + 1

\* Create Deck: the Deck is pushed, then `let _ = conn.execute("INSERT INTO
\* decks ...")`, which fails on a name already stored
CreateDeck ==
    /\ MainStep
    /\ \E new_deck_name \in DeckInputs, write_ok \in BOOLEAN :
         /\ new_deck_name # ""
         /\ all_decks' = Append(all_decks, [ name |-> new_deck_name,
                                             flashcards |-> <<>> ])
         /\ db_decks' = IF write_ok THEN db_decks \cup {new_deck_name}
                        ELSE db_decks
         /\ last_call' = [ op |-> "create_deck",
                           dup |-> InMemory(new_deck_name)
                                       \/ new_deck_name \in db_decks,
                           ok |-> write_ok /\ new_deck_name \notin db_decks,
                           deck |-> new_deck_name ]
    /\ UNCHANGED <<session_vars, db_vars, db_flashcards, selected_deck_index,
                   current_screen, panicked, grades, days, run_vars,
                   driver_vars, trace_vars, sm_vars, lock_vars>>

\* a click on a deck of the list
SelectDeck ==
    /\ MainStep
    /\ \E i \in 0..(Len(all_decks) - 1) :
         /\ selected_deck_index' = i
         /\ last_call' = [ op |-> "select", dup |-> FALSE, ok |-> TRUE,
                           deck |-> all_decks[i + 1].name ]
    /\ UNCHANGED <<session_vars, db_vars, table_vars, all_decks,
                   current_screen, panicked, grades, days, run_vars,
                   driver_vars, trace_vars, sm_vars, lock_vars>>

\* Add Flashcard: the Flashcard is pushed to the selected Deck, then `let _ =
\* conn.execute("INSERT OR IGNORE INTO flashcards ...")`; review_data is not
\* touched
AddFlashcard ==
    /\ MainStep
    /\ selected_deck_index >= 0
    /\ InRange(all_decks, selected_deck_index)
    /\ \E current_term \in TermInputs, current_definition \in DefinitionInputs,
          write_ok \in BOOLEAN :
         LET current_deck == all_decks[selected_deck_index + 1]
         IN  /\ current_term # "" /\ current_definition # ""
             /\ all_decks' =
                    [all_decks EXCEPT ![selected_deck_index + 1].flashcards =
                        Append(@, [ term |-> current_term,
                                    definition |-> current_definition ])]
             /\ db_flashcards' =
                    IF write_ok
                    THEN insert_or_ignore_flashcard(db_flashcards,
                             current_deck.name, current_term,
                             current_definition)
                    ELSE db_flashcards
             /\ last_call' = [ op |-> "add_flashcard_gui",
                               dup |-> HasTerm(db_flashcards, current_deck.name,
                                               current_term),
                               ok |-> write_ok,
                               deck |-> current_deck.name ]
    /\ UNCHANGED <<session_vars, db_vars, db_decks, selected_deck_index,
                   current_screen, panicked, grades, days, run_vars,
                   driver_vars, trace_vars, sm_vars, lock_vars>>

\* db::add_flashcard called on its own, as main.rs does for the sample deck;
\* foreign keys are not enforced, so any deck name is taken
AddFlashcardCall ==
    /\ MainStep
    /\ \E deck_name \in DeckNames, term \in Terms, definition \in Definitions,
          outcome \in AddOutcomes :
         LET r == add_flashcard(db_flashcards, db_review, get_current_date,
                                deck_name, term, definition, outcome)
         IN  /\ db_flashcards' = r.flashcards
             /\ db_review' = r.review
             /\ last_call' = [ op |-> "add_flashcard",
                               dup |-> HasTerm(db_flashcards, deck_name, term),
                               ok |-> r.ok,
                               deck |-> deck_name ]
    /\ UNCHANGED <<session_vars, db_current_date, db_decks, gui_vars,
                   panicked, grades, days, run_vars, driver_vars, trace_vars, sm_vars,
                   lock_vars>>

\* handle_import's loop over deck.flashcards from card k on: add_flashcard
\* for each, returning at the first Err.  fail_at is the card whose call
\* fails (0: none) and fail_as how it fails.
RECURSIVE ImportCards(_, _, _, _, _, _, _, _)
ImportCards(flashcards, table, date, deck_name, cards, k, fail_at, fail_as) ==
    IF k > Len(cards)
    THEN [ flashcards |-> flashcards, review |-> table, ok |-> TRUE ]
    ELSE LET r == add_flashcard(flashcards, table, date, deck_name,
                                cards[k].term, cards[k].definition,
                                IF k = fail_at THEN fail_as ELSE "ok")
         IN  IF r.ok
             THEN ImportCards(r.flashcards, r.review, date, deck_name, cards,
                              k + 1, fail_at, fail_as)
             ELSE r

\* `self.all_decks.decks.iter().any(|d| d.name == deck.name)` never true
ImportNameTaken_Never(name) == FALSE

\* `self.all_decks.decks.iter().any(|d| d.name == deck.name)`
ImportNameTaken(name) == InMemory(name)

\* handle_import with a file import_json has parsed: refused when a deck of
\* that name is in all_decks; else new_deck, add_flashcard for every card,
\* returning at the first Err, and at last the push to all_decks
Import ==
    /\ MainStep
    /\ \E deck \in ImportFiles, new_deck_ok \in BOOLEAN :
       \E fail_at \in 0..Len(deck.flashcards),
          fail_as \in {"err_insert", "err_later"} :
         LET created == new_deck_ok /\ deck.name \notin db_decks
             r == ImportCards(db_flashcards, db_review, get_current_date,
                              deck.name, deck.flashcards, 1, fail_at, fail_as)
         IN  /\ fail_at = 0 => fail_as = "err_insert"
             /\ IF ImportNameTaken(deck.name) \/ ~created
                THEN UNCHANGED <<db_decks, db_flashcards, db_review, all_decks>>
                ELSE /\ db_decks' = db_decks \cup {deck.name}
                     /\ db_flashcards' = r.flashcards
                     /\ db_review' = r.review
                     /\ all_decks' = IF r.ok THEN Append(all_decks, deck)
                                     ELSE all_decks
             /\ last_call' = [ op |-> "import",
                               dup |-> InMemory(deck.name)
                                           \/ deck.name \in db_decks,
                               ok |-> ~ImportNameTaken(deck.name) /\ created
                                          /\ r.ok,
                               deck |-> deck.name ]
    /\ UNCHANGED <<session_vars, db_current_date, selected_deck_index,
                   current_screen, panicked, grades, days, run_vars,
                   driver_vars, trace_vars, sm_vars, lock_vars>>

\* Next Day: `let _ = db::advance_day(&conn);`
NextDay ==
    /\ MainStep
    /\ advance_day
    /\ last_call' = [ op |-> "next_day", dup |-> FALSE, ok |-> TRUE,
                      deck |-> "" ]
    /\ UNCHANGED <<grades, driver_vars, trace_vars, sm_vars, lock_vars, table_vars,
                   gui_vars>>

\* Learn on deck i: start_learning_session.  A query that fails counts as
\* no card due (unwrap_or_default); a session is opened only for a
\* non-empty answer.
Learn ==
    /\ MainStep
    /\ \E deck_index \in 0..(Len(all_decks) - 1), read_ok \in BOOLEAN :
         LET deck == all_decks[deck_index + 1]
         IN  /\ \E due_cards \in
                      IF read_ok
                      THEN get_flashcards_due_for_review(deck.name,
                               db_flashcards, db_review, get_current_date)
                      ELSE { <<>> } :
                    IF due_cards # <<>>
                    THEN /\ all_cards' = NewAllCards(due_cards)
                         /\ current_round_cards' = NewIndices(due_cards)
                         /\ current_index' = 0
                         /\ show_definition' = FALSE
                         /\ round_number' = 1
                         /\ current_screen' = "LearningSession"
                    ELSE UNCHANGED <<session_vars, current_screen>>
             /\ last_call' = [ op |-> "learn", dup |-> FALSE, ok |-> read_ok,
                               deck |-> deck.name ]
    /\ UNCHANGED <<db_vars, table_vars, all_decks, selected_deck_index,
                   panicked, grades, days, run_vars, driver_vars, trace_vars, sm_vars,
                   lock_vars>>

\* Back to Main Screen: the session is dropped
Back ==
    /\ ~panicked
    /\ current_screen = "LearningSession"
    /\ current_screen' = "Main"
    /\ all_cards' = <<>>
    /\ current_round_cards' = <<>>
    /\ current_index' = 0
    /\ show_definition' = FALSE
    /\ round_number' = 1
    /\ last_call' = [ op |-> "back", dup |-> FALSE, ok |-> TRUE, deck |-> "" ]
    /\ UNCHANGED <<db_vars, table_vars, all_decks, selected_deck_index, ops,
                   panicked, grades, days, run_vars, driver_vars, trace_vars, sm_vars,
                   lock_vars>>

NextStore ==
    \/ CreateDeck \/ SelectDeck \/ AddFlashcard \/ AddFlashcardCall
    \/ Import \/ NextDay \/ Learn \/ Back

SpecStore == InitStore /\ [][NextStore]_vars


(* ============================== properties ============================= *)

NumCards == Len(all_cards)

\* no call has panicked, and of the first NumCards grades of the log card k
\* got 2 and every other card 5
OneFailedAt(k) ==
    /\ ~panicked
    /\ Len(log) >= NumCards
    /\ log[k] = 2
    /\ \A j \in 1..NumCards : j # k => log[j] = 5

\* C1: in a session of N >= 2 cards driven grade-then-next (every call
\* returning), when exactly one
\* card of round 1 was graded 2 and every other card 5, then after next_card
\* on the last card round_number is 2 and current_round_cards holds exactly
\* the failed card's index; once that card is graded 5 the session is
\* completed.
C1_OneFailureStartsRoundTwo ==
    \A k \in 1..NumCards :
        (NumCards >= 2 /\ OneFailedAt(k)) =>
            /\ (Len(log) = NumCards /\ phase = "grade") =>
                   /\ round_number = 2
                   /\ current_round_cards = << k - 1 >>
            /\ (Len(log) = NumCards + 1 /\ log[NumCards + 1] = 5) =>
                   is_completed

C1_Witness ==
    /\ NumCards >= 2
    /\ \E k \in 1..NumCards : OneFailedAt(k)
    /\ Len(log) = NumCards + 1
    /\ log[NumCards + 1] = 5
    /\ round_number = 2
    /\ is_completed

\* C2: in a non-empty session driven grade-then-next (every call returning),
\* when every card of round 1 was graded >= 3, then after next_card on the
\* last card the session is completed and round_number is still 1.
C2_AllPassedCompletesInRoundOne ==
    ( /\ NumCards >= 1
      /\ ~panicked
      /\ Len(log) = NumCards
      /\ phase = "grade"
      /\ \A j \in 1..NumCards : log[j] >= 3 )
    => (is_completed /\ round_number = 1)

C2_Witness ==
    /\ NumCards >= 2
    /\ Len(log) = NumCards
    /\ phase = "grade"
    /\ \A j \in 1..NumCards : log[j] >= 3
    /\ \E j \in 1..NumCards : log[j] = 3
    /\ is_completed
    /\ round_number = 1

\* C3: after every grading, whether its storage write succeeded or failed,
\* the ReviewData the session holds for each card equals the stored row of
\* that card.
C3_MemoryEqualsStorage ==
    \A k \in 1..NumCards : all_cards[k].rd = db_review[all_cards[k].id]

LearnedFlags(cards) == [ k \in 1..Len(cards) |-> cards[k].is_learned ]

\* C4: next_card on a completed session, a session with an empty round
\* included, does not panic and changes none of current_round_cards,
\* current_index, round_number and the is_learned flags.
C4_NextCardOnCompletedIsNoOp ==
    [][ (is_completed /\ NextCard) =>
            /\ ~panicked'
            /\ UNCHANGED <<current_round_cards, current_index, round_number>>
            /\ LearnedFlags(all_cards') = LearnedFlags(all_cards) ]_vars

\* C5: completed is terminal: once is_completed holds, it holds after every
\* further toggle_definition, grade_current_card and next_card that returns.
C5_CompletedIsTerminal ==
    [][ (is_completed /\ ~panicked') => is_completed' ]_vars

\* C6: after the current card is graded twice with no next_card in between
\* (both writes succeeding), its is_learned flag and its ReviewData, in the
\* session and in storage, are those of grading it once with the second
\* quality from the state it had before the first grade.
C6_SecondGradeOverwritesFirst ==
    (run_len = 2 /\ run_ok /\ ~panicked /\ HasCurrentCard) =>
        LET once == calculate_next_review(run_pre.card.rd, run_pre.quality,
                                          get_current_date)
        IN  /\ current_card.id = run_pre.id
            /\ current_card.is_learned = (run_pre.quality >= 3)
            /\ current_card.rd = once
            /\ db_review[run_pre.id] = once

SmCalled == sm_steps > 0

\* C7: from every ReviewData with easiness factor >= 1.3 and for every
\* quality, calculate_next_review returns an easiness factor >= 1.3, and so
\* does every further review of the result.
C7_EfNeverBelowFloor ==
    (SmCalled /\ sm_prev.easiness_factor >= EfFloor) =>
        sm_rd.easiness_factor >= EfFloor

C7_Witness ==
    /\ sm_steps = 2
    /\ sm_q = 0
    /\ sm_prev.easiness_factor = EfFloor
    /\ sm_rd.easiness_factor = EfFloor

\* the larger of two integers
Larger(a, b) == IF a >= b THEN a ELSE b

\* C8: for every quality < 3 calculate_next_review returns interval_days 0
\* and repetitions 0 whatever they were, and an easiness factor lowered by
\* 0.32, 0.54 or 0.80 (quality 2, 1, 0) but not below 1.3: strictly lower
\* than before unless it already was 1.3.
C8_FailedReviewResetsButUpdatesEf ==
    (SmCalled /\ sm_q < 3) =>
        LET drop == CASE sm_q = 2 -> 32 [] sm_q = 1 -> 54 [] sm_q = 0 -> 80
        IN  /\ sm_rd.interval_days = 0
            /\ sm_rd.repetitions = 0
            /\ sm_rd.easiness_factor =
                   Larger(EfFloor, sm_prev.easiness_factor - drop)
            /\ sm_prev.easiness_factor > EfFloor =>
                   sm_rd.easiness_factor < sm_prev.easiness_factor
            /\ sm_prev.easiness_factor = EfFloor =>
                   sm_rd.easiness_factor = EfFloor

C8_Witness ==
    /\ SmCalled
    /\ sm_q = 2
    /\ sm_prev.interval_days = 6
    /\ sm_prev.repetitions = 3
    /\ sm_prev.easiness_factor = DefaultEf
    /\ sm_rd.interval_days = 0
    /\ sm_rd.repetitions = 0
    /\ sm_rd.easiness_factor < DefaultEf

\* the distance between two integers
Dist(a, b) == IF a >= b THEN a - b ELSE b - a

C10_FirstPassGivesOneDay ==
    (SmCalled /\ sm_q >= 3 /\ sm_prev.repetitions = 0) =>
        (sm_rd.interval_days = 1 /\ sm_rd.repetitions = 1)

C10_Witness ==
    /\ SmCalled
    /\ sm_q = 4
    /\ sm_prev.repetitions = 0
    /\ sm_prev.interval_days > 1
    /\ sm_prev.easiness_factor = EfFloor
    /\ sm_rd.interval_days = 1
    /\ sm_rd.repetitions = 1

\* C11: for every quality >= 3 and prior repetitions 1,
\* calculate_next_review returns interval_days 6 and repetitions 2, whatever
\* the prior interval_days and easiness factor.
C11_SecondPassGivesSixDays ==
    (SmCalled /\ sm_q >= 3 /\ sm_prev.repetitions = 1) =>
        (sm_rd.interval_days = 6 /\ sm_rd.repetitions = 2)

C11_Witness ==
    /\ SmCalled
    /\ sm_q = 3
    /\ sm_prev.repetitions = 1
    /\ sm_prev.interval_days = 4
    /\ sm_prev.easiness_factor = EfFloor
    /\ sm_rd.interval_days = 6
    /\ sm_rd.repetitions = 2

\* C12: the next_review_date calculate_next_review returns is the
\* current_date it was given plus the returned interval_days times 24 hours
\* (24 * 60 * 60 seconds), so it is the current_date itself when quality < 3.
C12_NextReviewDateIsNowPlusInterval ==
    SmCalled =>
        /\ sm_rd.next_review_date =
               sm_now + sm_rd.interval_days * (24 * 60 * 60)
        /\ sm_q < 3 => sm_rd.next_review_date = sm_now

\* a review made a day after the card was due, and one that failed
C12_Witness ==
    /\ SmCalled
    /\ sm_now = StartDate + DaySecs
    /\ sm_prev.next_review_date = StartDate
    /\ \/ /\ sm_q = 5
          /\ sm_rd.interval_days = 6
          /\ sm_rd.next_review_date = StartDate + 7 * DaySecs
       \/ /\ sm_q = 1
          /\ sm_prev.interval_days = 6
          /\ sm_rd.next_review_date = StartDate + DaySecs

\* C13: a quality above 5 is taken as 5: calculate_next_review returns for
\* it the ReviewData it returns for quality 5 on the same input, which has
\* the easiness factor raised by 0.1 and the repetitions raised by one.
C13_QualityAboveFiveIsFive ==
    (SmCalled /\ sm_q > 5) =>
        /\ sm_rd = calculate_next_review(sm_prev, 5, sm_now)
        /\ sm_rd.easiness_factor = sm_prev.easiness_factor + 10
        /\ sm_rd.repetitions = sm_prev.repetitions + 1

C13_Witness ==
    /\ SmCalled
    /\ sm_q = 6
    /\ sm_prev.easiness_factor = DefaultEf
    /\ sm_prev.repetitions = 2
    /\ sm_rd.easiness_factor = DefaultEf + 10
    /\ sm_rd.repetitions = 3

\* C14: a session built from an empty list of due cards is completed from
\* the start: is_completed() is true, total_count, learned_count and
\* remaining_count are 0, and current_card() is None.
C14_EmptySessionIsCompleted ==
    all_cards = <<>> =>
        /\ is_completed
        /\ total_count = 0
        /\ learned_count = 0
        /\ remaining_count = 0
        /\ ~HasCurrentCard

\* the session as new_from_due_cards leaves it, no card being due
C14_Witness ==
    /\ all_cards = <<>>
    /\ db_review = <<>>
    /\ grades = 0
    /\ current_index = 0
    /\ round_number = 1
    /\ ~show_definition
    /\ is_completed
    /\ ~HasCurrentCard

\* C15: a grade_current_card whose update_review_data fails does not crash
\* and hands its caller a value that differs from the one of a grading whose
\* write succeeded, so that the caller can tell the two apart.
C15_FailedWriteIsSurfaced ==
    [][ \A quality \in Qualities :
          (HasCurrentCard /\ grade_current_card(quality, TRUE, FALSE)) =>
              /\ ~panicked'
              /\ grade_current_card_returns(FALSE)
                     # grade_current_card_returns(TRUE) ]_vars

\* the steps a holder takes with the guard in scope
InGuard(h) ==
    IF h = "session" THEN pc[h] \in {"fetch", "compute", "persist", "commit"}
    ELSE pc[h] \in {"advance", "release"}

\* C16: the holders of the storage handle exclude one another, and the
\* fetch of the date, the computation and the write of one
\* grade_current_card happen under one held lock: from the fetch to the
\* write no other holder is inside a storage call, the date fetched is
\* still the stored one, and the row written is computed from it.
C16_GradeRunsUnderOneLock ==
    /\ \A h \in Holders : InGuard(h) => conn_lock = h
    /\ ~(InGuard("session") /\ InGuard("ui"))
    /\ pc["session"] \in {"compute", "persist", "commit"} =>
           grade_frame.current_date = db_current_date
    /\ pc["session"] \in {"persist", "commit"} =>
           grade_frame.new_review.next_review_date =
               db_current_date
                   + grade_frame.new_review.interval_days * DaySecs

\* Next Day waits for the lock while a grading is between fetch and write,
\* the date having been advanced once before
C16_Witness ==
    /\ pc["session"] = "persist"
    /\ pc["ui"] = "idle"
    /\ conn_lock = "session"
    /\ days = 1
    /\ db_current_date = StartDate + DaySecs
    /\ grade_frame.current_date = db_current_date
    /\ grade_frame.new_review.interval_days = 1

\* C17: a card added without a storage error, on any of the add paths
\* (add_flashcard, the Add Flashcard button, an import), has a ReviewData
\* row; the row of a card just added by add_flashcard or the button holds
\* the defaults (2.5, 0, 0) and the current date.
C17_AddedCardHasDefaultReviewState ==
    /\ (last_call.op \in {"add_flashcard", "add_flashcard_gui"}
            /\ last_call.ok /\ ~last_call.dup) =>
           LET id == Len(db_flashcards)
           IN  /\ id \in DOMAIN db_review
               /\ db_review[id] = DefaultReview(id, db_current_date)
    /\ (last_call.op = "import" /\ last_call.ok) =>
           \A deck \in ImportFiles : \A k \in 1..Len(deck.flashcards) :
               deck.name = last_call.deck =>
                   flashcard_id(db_flashcards, deck.name,
                                deck.flashcards[k].term) \in DOMAIN db_review

\* the cards of the deck learned last that have a ReviewData row due on the
\* current date
DueIds ==
    { id \in DOMAIN db_flashcards \cap DOMAIN db_review :
        /\ db_flashcards[id].deck_name = last_call.deck
        /\ db_review[id].next_review_date <= db_current_date }

\* C18: the answer of get_flashcards_due_for_review for a deck, as
\* start_learning_session hands it to the session, holds exactly the cards
\* of that deck whose next_review_date is on or before the current date,
\* each once with its stored ReviewData, in ascending order of
\* next_review_date; a session is opened just when the answer is not empty.
C18_DueQueryIsDeckDueSorted ==
    (last_call.op = "learn" /\ last_call.ok) =>
        /\ Len(all_cards) = Cardinality(DueIds)
        /\ { all_cards[k].id : k \in 1..Len(all_cards) } = DueIds
        /\ \A k \in 1..Len(all_cards) :
               all_cards[k].rd = db_review[all_cards[k].id]
        /\ \A a, b \in 1..Len(all_cards) :
               a < b => all_cards[a].rd.next_review_date
                            <= all_cards[b].rd.next_review_date
        /\ (current_screen = "LearningSession") <=> (DueIds # {})

\* deck A learned a day on: card 2, due since yesterday, comes before card
\* 1, due today; a due card of deck B is left out
C18_Witness ==
    /\ last_call.op = "learn"
    /\ last_call.ok
    /\ last_call.deck = "A"
    /\ days = 1
    /\ Len(all_cards) = 2
    /\ all_cards[1].id = 2
    /\ all_cards[2].id = 1
    /\ \E id \in DOMAIN db_flashcards \cap DOMAIN db_review :
          /\ db_flashcards[id].deck_name = "B"
          /\ db_review[id].next_review_date <= db_current_date

\* C19: adding a term its deck already holds in storage, through
\* add_flashcard or the Add Flashcard button and without a storage error,
\* leaves the deck as it was: the
\* tables decks, flashcards and review_data (the card's definition and
\* ReviewData among them) and the decks of all_decks are unchanged.
C19_DuplicateTermIsIgnored ==
    [][ (last_call'.op \in {"add_flashcard", "add_flashcard_gui"}
            /\ last_call'.dup /\ last_call'.ok /\ ops' = ops + 1) =>
            UNCHANGED <<db_decks, db_flashcards, db_review, all_decks>>
      ]_vars

\* C20: an import of a deck whose name is that of a deck in all_decks or in
\* table decks fails and inserts nothing: the tables decks, flashcards and
\* review_data and all_decks are as before.
C20_DuplicateNameImportInsertsNothing ==
    [][ (last_call'.op = "import" /\ last_call'.dup /\ ops' = ops + 1) =>
            /\ ~last_call'.ok
            /\ UNCHANGED <<db_decks, db_flashcards, db_review, all_decks>>
      ]_vars

\* the file named A was refused, deck A and its two cards being all there is
C20_Witness ==
    /\ last_call.op = "import"
    /\ last_call.dup
    /\ ~last_call.ok
    /\ last_call.deck = "A"
    /\ db_decks = {"A"}
    /\ Len(db_flashcards) = 2
    /\ Len(all_decks) = 1
    /\ Len(all_decks[1].flashcards) = 2

\* C26: the easiness factor calculate_next_review returns is the larger of
\* 1.3 and the previous one changed, for the clamped quality 5, 4, 3, 2, 1,
\* 0, by +0.10, 0, -0.14, -0.32, -0.54, -0.80: only quality 5 raises it and
\* quality 4 leaves it as it was.
C26_EfChangeByQuality ==
    SmCalled =>
        LET q == IF sm_q > 5 THEN 5 ELSE sm_q
            change == CASE q = 5 -> 10 [] q = 4 -> 0 [] q = 3 -> -14
                        [] q = 2 -> -32 [] q = 1 -> -54 [] q = 0 -> -80
        IN  /\ sm_rd.easiness_factor =
                   Larger(EfFloor, sm_prev.easiness_factor + change)
            /\ sm_rd.easiness_factor > sm_prev.easiness_factor => q = 5
            /\ q = 4 => sm_rd.easiness_factor = sm_prev.easiness_factor

\* a review of quality 3 has lowered 2.5 to 2.36
C26_Witness ==
    /\ SmCalled
    /\ sm_q = 3
    /\ sm_prev.easiness_factor = DefaultEf
    /\ sm_rd.easiness_factor = 236

\* the indices held by current_round_cards
RoundSet == { current_round_cards[k] : k \in 1..Len(current_round_cards) }

\* those of them whose card is not learned
NotLearnedSet == { idx \in RoundSet : ~all_cards[idx + 1].is_learned }

\* the cursor is on the last card of a round that has one
AtLastIndex ==
    /\ current_round_cards # <<>>
    /\ current_index = Len(current_round_cards) - 1

\* where x stands in seq
Pos(seq, x) == CHOOSE k \in 1..Len(seq) : seq[k] = x

\* C21: next_card at the last index of the round: when some card of the
\* round is not learned, the new round is the not-learned cards of the old
\* one in their old order, current_index is 0, show_definition is false,
\* round_number is one more and every card of the new round is not learned;
\* when every card is learned nothing of the session changes.
C21_RoundAdvance ==
    [][ (NextCard /\ AtLastIndex) =>
          IF NotLearnedSet # {}
          THEN /\ Len(current_round_cards') = Cardinality(NotLearnedSet)
               /\ { current_round_cards'[k] :
                       k \in 1..Len(current_round_cards') } = NotLearnedSet
               /\ \A a, b \in 1..Len(current_round_cards') :
                      a < b => Pos(current_round_cards, current_round_cards'[a])
                             < Pos(current_round_cards, current_round_cards'[b])
               /\ current_index' = 0
               /\ show_definition' = FALSE
               /\ round_number' = round_number + 1
               /\ \A k \in 1..Len(current_round_cards') :
                      ~all_cards'[current_round_cards'[k] + 1].is_learned
          ELSE UNCHANGED session_vars ]_vars

\* round 2 of a two-card session whose first card passed: the second card
\* alone, not learned, the cursor on it and the definition hidden
C21_Witness ==
    /\ ~panicked
    /\ round_number = 2
    /\ Len(all_cards) = 2
    /\ current_round_cards = <<1>>
    /\ current_index = 0
    /\ ~show_definition
    /\ all_cards[1].is_learned
    /\ ~all_cards[2].is_learned

\* a call of grade_current_card on a current card that returned with the
\* date read and the row written
GradedOk ==
    /\ grades' = grades + 1
    /\ HasCurrentCard
    /\ ~panicked'
    /\ run_len' = run_len + 1
    /\ run_ok'

\* C22: grade_current_card(q) on a current card, its storage calls
\* succeeding: the card's is_learned becomes (q >= 3); its ReviewState in
\* memory and its stored row become calculate_next_review(the ReviewState it
\* had, q, current date); current_index, current_round_cards, round_number,
\* show_definition, the current date and every other card and row stay.
C22_GradeEffectAndFrame ==
    [][ GradedOk =>
          LET q == run_pre'.quality
              old == all_cards[CurrentIdx + 1]
              expected == calculate_next_review(old.rd, q, db_current_date)
          IN  /\ q \in Qualities
              /\ Len(all_cards') = Len(all_cards)
              /\ all_cards'[CurrentIdx + 1].is_learned = (q >= 3)
              /\ all_cards'[CurrentIdx + 1].rd = expected
              /\ all_cards'[CurrentIdx + 1].id = old.id
              /\ DOMAIN db_review' = DOMAIN db_review
              /\ old.id \in DOMAIN db_review
              /\ db_review'[old.id] = expected
              /\ UNCHANGED <<current_index, current_round_cards, round_number,
                             show_definition, db_current_date>>
              /\ \A k \in 1..Len(all_cards) :
                     k # CurrentIdx + 1 => all_cards'[k] = all_cards[k]
              /\ \A id \in DOMAIN db_review :
                     id # old.id => db_review'[id] = db_review[id] ]_vars

\* the second card of a two-card round graded 2 once, the first card not
\* graded: the second card is not learned, holds the lowered easiness factor
\* in memory and in its row, and the cursor is still on it
C22_Witness ==
    /\ ~panicked
    /\ Len(all_cards) = 2
    /\ current_round_cards = <<0, 1>>
    /\ current_index = 1
    /\ grades = 1
    /\ run_len = 1
    /\ run_ok
    /\ run_pre.quality = 2
    /\ ~all_cards[2].is_learned
    /\ all_cards[2].rd.easiness_factor = run_pre.card.rd.easiness_factor - 32
    /\ db_review[all_cards[2].id] = all_cards[2].rd
    /\ db_review[all_cards[1].id] = all_cards[1].rd

\* the cursor is on a card of the round that is not its last
BeforeLastIndex ==
    /\ current_round_cards # <<>>
    /\ current_index < Len(current_round_cards) - 1

\* C23: next_card with the cursor before the last index of the round adds
\* exactly 1 to current_index and sets show_definition to false, leaving
\* current_round_cards, round_number, the cards (flags and ReviewStates) and
\* the store as they are; the round and round_number change only in a
\* next_card taken at the last index.
C23_NextCardWithinRound ==
    /\ [][ (NextCard /\ BeforeLastIndex) =>
             /\ current_index' = current_index + 1
             /\ show_definition' = FALSE
             /\ ~panicked'
             /\ UNCHANGED <<current_round_cards, round_number, all_cards,
                            db_vars>> ]_vars
    /\ [][ (current_round_cards' # current_round_cards
             \/ round_number' # round_number) =>
               NextCard /\ AtLastIndex ]_vars

\* the first card of a two-card round graded 4 with the definition shown,
\* then next_card: the cursor is on the second card and the definition is hidden
C23_Witness ==
    /\ ~panicked
    /\ current_round_cards = <<0, 1>>
    /\ current_index = 1
    /\ round_number = 1
    /\ ~show_definition
    /\ grades = 1
    /\ run_len = 0
    /\ all_cards[1].is_learned
    /\ ~all_cards[2].is_learned

(* ---------------- the session with a record of its toggles ------------- *)
\* The three operations of the session, with the record of what
\* show_definition was when the call before was a toggle.

ToggleCall ==
    /\ toggle_definition
    /\ toggle_pre' = <<show_definition>>
    /\ UNCHANGED <<round_grades, last_grade, grades, days, driver_vars, sm_vars, lock_vars,
                   app_vars>>

ToggleGrade ==
    /\ grades < MaxToggleGrades
    /\ \E quality \in Qualities, read_ok \in BOOLEAN, write_ok \in BOOLEAN :
         grade_current_card(quality, read_ok, write_ok)
    /\ grades' = grades + 1
    /\ toggle_pre' = <<>>
    /\ UNCHANGED <<round_grades, last_grade, days, driver_vars, sm_vars, lock_vars,
                   app_vars>>

ToggleNext ==
    /\ round_number <= MaxRounds
    /\ current_index < MaxCards + MaxWrap
    /\ \E overflow_checks \in BOOLEAN : next_card(overflow_checks)
    /\ toggle_pre' = <<>>
    /\ UNCHANGED <<round_grades, last_grade, grades, days, driver_vars, sm_vars, lock_vars,
                   app_vars>>

NextToggle == ToggleCall \/ ToggleGrade \/ ToggleNext

SpecToggle == Init /\ [][NextToggle]_vars

(* ---------- the session with a record of the grades of the round ------- *)
\* The three operations of Spec, with the record of the latest quality each
\* card was graded with in the current round.

\* table with key -> value put in
Put(table, key, value) ==
    [ k \in DOMAIN table \cup {key} |-> IF k = key THEN value ELSE table[k] ]

TraceGrade ==
    /\ grades < MaxGrades
    /\ \E quality \in Qualities, read_ok \in BOOLEAN, write_ok \in BOOLEAN :
         /\ grade_current_card(quality, read_ok, write_ok)
         /\ round_grades' = IF HasCurrentCard
                            THEN Put(round_grades, CurrentIdx, quality)
                            ELSE round_grades
    /\ grades' = grades + 1
    /\ UNCHANGED <<toggle_pre, last_grade, days, driver_vars, sm_vars, lock_vars, app_vars>>

TraceNext ==
    /\ round_number <= MaxRounds
    /\ current_index < MaxCards + MaxWrap
    /\ \E overflow_checks \in BOOLEAN : next_card(overflow_checks)
    /\ round_grades' = IF round_number' # round_number THEN <<>>
                       ELSE round_grades
    /\ UNCHANGED <<toggle_pre, last_grade, grades, days, driver_vars, sm_vars, lock_vars,
                   app_vars>>

NextTrace == Toggle \/ TraceGrade \/ TraceNext

SpecTrace == Init /\ [][NextTrace]_vars

\* C24: toggle_definition flips show_definition and changes nothing else of
\* the session or the store; the second of two toggles in a row gives
\* show_definition the value the first one found, so the two together
\* restore the state.
C24_ToggleFlipsOnly ==
    [][ ToggleCall =>
          /\ show_definition' = ~show_definition
          /\ toggle_pre # <<>> => show_definition' = toggle_pre[1]
          /\ UNCHANGED <<all_cards, current_round_cards, current_index,
                         round_number, db_vars, panicked>> ]_vars

\* two toggles in a row on the second card of a round, after a grade and a
\* next_card: the definition was hidden, then shown, and is hidden again
C24_Witness ==
    /\ ~panicked
    /\ toggle_pre = <<TRUE>>
    /\ ~show_definition
    /\ grades = 1
    /\ current_index = 1
    /\ current_round_cards = <<0, 1>>

\* C25: in every state total_count is the length of current_round_cards,
\* learned_count is the number of cards of the round that are learned,
\* learned_count <= total_count so that remaining_count is their difference
\* without underflow, and is_completed is true exactly when the round is
\* empty or every card of it is learned.
C25_CountsAgree ==
    LET learned == { idx \in RoundSet :
                       InRange(all_cards, idx) /\ all_cards[idx + 1].is_learned }
    IN  /\ total_count = Len(current_round_cards)
        /\ learned_count = Cardinality(learned)
        /\ learned_count <= total_count
        /\ remaining_count >= 0
        /\ remaining_count + learned_count = Len(current_round_cards)
        /\ is_completed <=> (current_round_cards = <<>> \/ learned = RoundSet)

\* round 2 holding the second card alone, not learned, while the first card
\* stays learned from round 1: 0 learned of 1, 1 remaining, not completed
C25_Witness ==
    /\ round_number = 2
    /\ current_round_cards = <<1>>
    /\ all_cards[1].is_learned
    /\ ~all_cards[2].is_learned
    /\ learned_count = 0
    /\ total_count = 1
    /\ remaining_count = 1
    /\ ~is_completed

\* C27: in every state whose round is not empty the cursor is inside the
\* round, current_index < Len(current_round_cards), and the index it points
\* at is one of all_cards, so that current_card returns a card.
C27_CursorInsideRound ==
    current_round_cards # <<>> =>
        /\ current_index >= 0
        /\ current_index < Len(current_round_cards)
        /\ current_round_cards[current_index + 1] \in 0..(Len(all_cards) - 1)
        /\ HasCurrentCard

\* round 2 entered from the last index (1) of a two-card round: the cursor
\* is back at 0 on the one card of the new round, which has been graded
C27_Witness ==
    /\ ~panicked
    /\ round_number = 2
    /\ Len(all_cards) = 2
    /\ Len(current_round_cards) = 1
    /\ current_index = 0
    /\ HasCurrentCard
    /\ current_card = all_cards[2]
    /\ grades = 2
    /\ run_len = 1

\* the round holds indices of all_cards, each once, in increasing order
RoundWellFormed(round, cards) ==
    /\ \A k \in 1..Len(round) : round[k] \in 0..(Len(cards) - 1)
    /\ \A a, b \in 1..Len(round) : a < b => round[a] < round[b]

\* C28: current_round_cards always holds distinct, strictly increasing
\* indices that are in range of all_cards; every step leaves the round a
\* subset of what it was, so total_count never grows; and all_cards keeps
\* the same cards at the same places, none gained and none lost.
C28_RoundsShrinkCardsStay ==
    /\ [] RoundWellFormed(current_round_cards, all_cards)
    /\ [][ /\ { current_round_cards'[k] :
                   k \in 1..Len(current_round_cards') } \subseteq RoundSet
           /\ Len(current_round_cards') <= Len(current_round_cards)
           /\ Len(all_cards') = Len(all_cards)
           /\ \A k \in 1..Len(all_cards) :
                  all_cards'[k].id = all_cards[k].id ]_vars

\* round 2 of a two-card session in which only the first card failed: the
\* round went from <<0, 1>> to <<0>> and both cards are still held
C28_Witness ==
    /\ ~panicked
    /\ round_number = 2
    /\ Len(all_cards) = 2
    /\ all_cards[1].id # all_cards[2].id
    /\ current_round_cards = <<0>>
    /\ all_cards[2].is_learned

\* the card at idx has a grade in the current round, and its latest is >= 3
PassedInRound(idx) == idx \in DOMAIN round_grades /\ round_grades[idx] >= 3

\* C29: a card of the round is learned only if its latest grade in the
\* current round was >= 3, so a completed session with a non-empty round
\* has had every card of the round passed, none skipped; a card without a
\* grade in the round stays not learned through every call that is not a
\* grade, and when next_card opens the next round that card is in it.
C29_SkippedCardsComeBack ==
    /\ [] (\A idx \in RoundSet :
              all_cards[idx + 1].is_learned => PassedInRound(idx))
    /\ [] (is_completed => \A idx \in RoundSet : PassedInRound(idx))
    /\ [][ \A idx \in RoundSet :
             (idx \notin DOMAIN round_grades /\ grades' = grades) =>
               /\ ~all_cards'[idx + 1].is_learned
               /\ round_number' # round_number =>
                     \E k \in 1..Len(current_round_cards') :
                        current_round_cards'[k] = idx ]_vars

\* round 2 of a two-card session in which one grade was given, a failing
\* one, and the other card was passed over: both cards are in the round
C29_Witness ==
    /\ ~panicked
    /\ round_number = 2
    /\ grades = 1
    /\ current_round_cards = <<0, 1>>
    /\ round_grades = <<>>
    /\ \A k \in 1..Len(all_cards) : ~all_cards[k].is_learned
    /\ ~is_completed

(* ------------- the learning screen used until the session ends --------- *)
\* render_learning_screen while the session is not completed: "Show
\* Definition" is offered while the definition is hidden, the six grade
\* buttons while it is shown and the card is not learned; a grade button
\* runs grade_current_card and then next_card.  The first MaxLiveGrades
\* grades are logged and may be any quality; every grade after them is
\* >= 3.  The user keeps clicking, so a step is taken whenever one can be.

LiveQualities ==
    IF Len(log) < MaxLiveGrades THEN Qualities
    ELSE { q \in Qualities : q >= 3 }

LiveShow ==
    /\ phase = "grade"
    /\ ~is_completed
    /\ HasCurrentCard
    /\ ~show_definition
    /\ toggle_definition
    /\ UNCHANGED <<grades, days, driver_vars, trace_vars, sm_vars, lock_vars,
                   app_vars>>

LiveGrade ==
    /\ phase = "grade"
    /\ ~is_completed
    /\ HasCurrentCard
    /\ show_definition
    /\ ~current_card.is_learned
    /\ \E quality \in LiveQualities, read_ok \in BOOLEAN, write_ok \in BOOLEAN :
         /\ grade_current_card(quality, read_ok, write_ok)
         /\ IF panicked' THEN UNCHANGED driver_vars
            ELSE /\ log' = IF Len(log) < MaxLiveGrades
                           THEN Append(log, quality) ELSE log
                 /\ phase' = "next"
    /\ UNCHANGED <<grades, days, trace_vars, sm_vars, lock_vars, app_vars>>

LiveNext ==
    /\ phase = "next"
    /\ \E overflow_checks \in BOOLEAN : next_card(overflow_checks)
    /\ phase' = "grade"
    /\ UNCHANGED <<log, grades, days, trace_vars, sm_vars, lock_vars, app_vars>>

NextLive == LiveShow \/ LiveGrade \/ LiveNext

SpecLive == Init /\ [][NextLive]_vars /\ WF_vars(NextLive)

\* C30: on the learning screen, where each grade is followed by next_card,
\* once every further grade is >= 3 and steps keep being taken the session
\* is eventually completed (unless a storage read failure has ended it);
\* round_number goes up by exactly 1 in the next_card that ends a round
\* holding a not-learned card, and is unchanged in every other step.
C30_PassingGradesComplete ==
    /\ <>(is_completed \/ panicked)
    /\ [][ round_number' = round_number +
             (IF phase = "next" /\ AtLastIndex /\ NotLearnedSet # {}
              THEN 1 ELSE 0) ]_vars

\* a two-card session completed in round 2: the first grade logged was a
\* failing one, and every card of the last round is learned
C30_Witness ==
    /\ ~panicked
    /\ Len(all_cards) = 2
    /\ round_number = 2
    /\ log # <<>>
    /\ log[1] < 3
    /\ phase = "grade"
    /\ current_round_cards # <<>>
    /\ is_completed

(* ------------- the application: main screen and learning screen -------- *)
\* MyApp on the tables of an earlier run.  On the main screen Learn and
\* Next Day; on the learning screen Show Definition, the grade buttons
\* (grade_current_card, then next_card in the same handler) and Back to
\* Main Screen.  last_grade records, for each card, the quality and the date
\* of its latest grade that reached the table.

\* AppGrade with the grade buttons offered whatever the session's state
AppGrade_Unguarded ==
    /\ current_screen = "LearningSession"
    /\ phase = "grade"
    /\ grades < MaxGrades
    /\ \E quality \in Qualities, read_ok \in BOOLEAN, write_ok \in BOOLEAN :
         /\ grade_current_card(quality, read_ok, write_ok)
         /\ IF panicked' THEN UNCHANGED <<phase, last_grade>>
            ELSE /\ phase' = "next"
                 /\ UNCHANGED last_grade
    /\ grades' = grades + 1
    /\ UNCHANGED <<log, toggle_pre, round_grades, days, sm_vars, lock_vars,
                   app_vars>>

AppGrade ==
    /\ current_screen = "LearningSession"
    /\ phase = "grade"
    /\ grades < MaxGrades
    /\ ~is_completed
    /\ HasCurrentCard
    /\ show_definition
    /\ ~current_card.is_learned
    /\ \E quality \in Qualities, read_ok \in BOOLEAN, write_ok \in BOOLEAN :
         /\ grade_current_card(quality, read_ok, write_ok)
         /\ IF panicked' THEN UNCHANGED <<phase, last_grade>>
            ELSE /\ phase' = "next"
                 /\ last_grade' =
                      IF write_ok
                      THEN Put(last_grade, current_card.id,
                               [ quality |-> quality,
                                 date |-> get_current_date ])
                      ELSE last_grade
    /\ grades' = grades + 1
    /\ UNCHANGED <<log, toggle_pre, round_grades, days, sm_vars, lock_vars,
                   app_vars>>

AppShow ==
    /\ current_screen = "LearningSession"
    /\ LiveShow

AppNext ==
    /\ current_screen = "LearningSession"
    /\ LiveNext

AppBack ==
    /\ phase = "grade"
    /\ Back

NextApp == Learn \/ NextDay \/ AppShow \/ AppGrade \/ AppNext \/ AppBack

SpecApp == InitStore /\ [][NextApp]_vars

\* every answer of get_flashcards_due_for_review for the deck holds the card
Returned(deck_name, id) ==
    \A cards \in get_flashcards_due_for_review(deck_name, db_flashcards,
                                                db_review, get_current_date) :
        \E k \in 1..Len(cards) : cards[k].id = id

\* no answer of it holds the card
NotReturned(deck_name, id) ==
    \A cards \in get_flashcards_due_for_review(deck_name, db_flashcards,
                                                db_review, get_current_date) :
        \A k \in 1..Len(cards) : cards[k].id # id

\* advance_day calls made since the date
DaysSince(date) == (db_current_date - date) \div DaySecs

\* C31: for a card whose latest stored grade was given on date D: when the
\* quality was >= 3 its interval_days is >= 1 and the due query of its deck
\* leaves it out while fewer than interval_days advance_day calls have
\* been made since D and returns it from then on; when the quality was < 3
\* the query returns it on D already.
C31_DueAfterIntervalDays ==
    \A id \in DOMAIN last_grade :
        LET g == last_grade[id]
            row == db_review[id]
            deck_name == db_flashcards[id].deck_name
        IN  /\ DaysSince(g.date) >= 0
            /\ DaysSince(g.date) * DaySecs = db_current_date - g.date
            /\ IF g.quality >= 3
               THEN /\ row.interval_days >= 1
                    /\ DaysSince(g.date) < row.interval_days =>
                          NotReturned(deck_name, id)
                    /\ DaysSince(g.date) >= row.interval_days =>
                          Returned(deck_name, id)
               ELSE Returned(deck_name, id)

\* card 2 failed and then passed on the start date, and one Next Day since:
\* its interval is 1 day and the query returns it
C31_Witness ==
    /\ ~panicked
    /\ 2 \in DOMAIN last_grade
    /\ last_grade[2].quality >= 3
    /\ last_grade[2].date = StartDate
    /\ db_review[2].interval_days = 1
    /\ days = 1
    /\ db_current_date = StartDate + DaySecs
    /\ Returned("A", 2)

(* --------------------- a card graded again and again ------------------- *)
\* The ReviewData of one card, from the row add_flashcard gives it, through
\* a run of grades of 5 and then gradings of any quality.  Each grading is
\* lines 20-43 of calculate_next_review; the review date plays no part in
\* easiness_factor, interval_days and repetitions, and next_review_date is
\* not followed here.

\* new_ef and the pair (new_interval, new_repetitions)
NewProgress(review_data, quality_in) ==
    LET quality == ClampQuality(quality_in)
        new_ef == NewEf(review_data.easiness_factor, quality)
        new_reps == review_data.repetitions + 1
    IN  [ review_data EXCEPT
            !.easiness_factor = new_ef,
            !.interval_days = IF quality < 3 THEN 0
                              ELSE NewInterval(review_data, new_reps, new_ef),
            !.repetitions = IF quality < 3 THEN 0 ELSE new_reps ]

\* the ReviewData of a new card after n grades of 5
RECURSIVE PerfectRun(_)
PerfectRun(n) ==
    IF n = 0 THEN DefaultReview(1, StartDate)
    ELSE NewProgress(PerfectRun(n - 1), MaxQuality)

InitChain ==
    /\ sm_rd \in { PerfectRun(n) : n \in 0..MaxPerfectRun }
    /\ sm_prev = NoReview
    /\ sm_q = 0
    /\ sm_now = 0
    /\ sm_steps = 0
    /\ NoSession
    /\ db_review = <<>>
    /\ db_current_date = StartDate
    /\ panicked = FALSE
    /\ grades = 0
    /\ days = 0
    /\ run_len = 0
    /\ run_pre = NoCard
    /\ run_ok = TRUE
    /\ log = <<>>
    /\ phase = "grade"
    /\ LockIdle
    /\ TraceIdle
    /\ AppIdle

Regrade ==
    /\ sm_steps < MaxChainSteps
    /\ \E quality \in 0..MaxSmQuality :
         /\ sm_rd' = NewProgress(sm_rd, quality)
         /\ sm_q' = quality
    /\ sm_prev' = sm_rd
    /\ sm_steps' = sm_steps + 1
    /\ UNCHANGED <<sm_now, session_vars, db_vars, panicked, grades, days,
                   run_vars, driver_vars, trace_vars, lock_vars, app_vars>>

NextChain == Regrade

SpecChain == InitChain /\ [][NextChain]_vars

\* C32: every ReviewData reached from the defaults by gradings has
\* interval_days >= 0 and repetitions >= 0, interval_days = 0 exactly when
\* repetitions = 0, and after a grade of quality >= 3 an interval_days
\* strictly greater than the one before that grade.
C32_PassingGradeLengthensInterval ==
    /\ sm_rd.interval_days >= 0
    /\ sm_rd.repetitions >= 0
    /\ (sm_rd.interval_days = 0) <=> (sm_rd.repetitions = 0)
    /\ (SmCalled /\ sm_q >= 3) =>
          sm_rd.interval_days > sm_prev.interval_days

\* the (term, definition) pairs stored for the deck
StoredCards(deck_name) ==
    { [ term |-> db_flashcards[id].term,
        definition |-> db_flashcards[id].definition ] :
        id \in { i \in DOMAIN db_flashcards :
                    db_flashcards[i].deck_name = deck_name } }

\* all_decks and the tables hold the same decks, each once, and for each
\* deck the same cards, each once
DeckSetMatchesStorage ==
    /\ { all_decks[k].name : k \in 1..Len(all_decks) } = db_decks
    /\ \A a, b \in 1..Len(all_decks) :
           a # b => all_decks[a].name # all_decks[b].name
    /\ \A id \in DOMAIN db_flashcards : db_flashcards[id].deck_name \in db_decks
    /\ \A k \in 1..Len(all_decks) :
           LET deck == all_decks[k]
           IN  /\ { deck.flashcards[j] : j \in 1..Len(deck.flashcards) }
                      = StoredCards(deck.name)
               /\ Len(deck.flashcards) = Cardinality(StoredCards(deck.name))

\* C33: Create Deck, Add Flashcard and Import each leave the in-memory
\* DeckSet holding exactly the decks and cards held in storage, when it did
\* before: the same deck names and for each deck the same terms with the
\* same definitions, none on one side only and none twice.
C33_DeckSetMirrorsStorage ==
    [][ (DeckSetMatchesStorage /\ (CreateDeck \/ AddFlashcard \/ Import)) =>
          DeckSetMatchesStorage' ]_vars

\* C34: in the application a LearningSession exists only on the learning
\* screen and holds a non-empty due list and a non-empty round; a grade is
\* issued only while the session is not completed, has a current card, shows
\* the definition and that card is not learned; so next_card, which follows
\* each grade, always finds a non-empty round and does not panic, and no
\* card is graded on a completed session.
C34_AppGuardsSessionCalls ==
    /\ [] (current_screen = "LearningSession" =>
              all_cards # <<>> /\ current_round_cards # <<>>)
    /\ [] (current_screen = "Main" => all_cards = <<>>)
    /\ [][ grades' = grades + 1 =>
             /\ current_screen = "LearningSession"
             /\ ~is_completed
             /\ HasCurrentCard
             /\ show_definition
             /\ ~current_card.is_learned ]_vars
    /\ [][ (phase = "next" /\ phase' = "grade") =>
             /\ current_round_cards # <<>>
             /\ ~panicked' ]_vars

\* a session opened by Learn, its one due card graded 4 and next_card run:
\* the session is completed and still on the screen
C34_Witness ==
    /\ ~panicked
    /\ current_screen = "LearningSession"
    /\ last_call.op = "learn"
    /\ grades = 1
    /\ phase = "grade"
    /\ Len(all_cards) = 1
    /\ all_cards[1].is_learned
    /\ is_completed

====
